---------------------------- MODULE Spec2Model ----------------------------
(***************************************************************************)
(* A model of Arduboy2EEPROM (src/src/Arduboy2EEPROM.h): byte access,      *)
(* object serialisation, the rotate/XOR hash and the hash-prefixed record  *)
(* protocol, over a 1 KiB EEPROM.                                          *)
(*                                                                         *)
(* Representation.  An object is its object representation: a sequence of  *)
(* bytes (0..255).  An unsigned integer wider than a byte is a sequence of *)
(* 16-bit limbs, least significant limb first (a uint32_t is <<lo, hi>>),  *)
(* so that 32- and 64-bit values stay inside TLC's integers.  Its object   *)
(* representation is little-endian, as on the AVR.                         *)
(***************************************************************************)
EXTENDS Integers, Sequences, FiniteSets, TLC

\* ------------------------------------------------------------------ bounds
\* Longest record (sizeof(object)) the operations are called with.
MaxLen == 2
\* Number of operations in a run of the record protocol (Spec).
MaxOps == 3
\* Number of operations in a run with caller-supplied hash providers.
MaxCustomOps == 2
\* Longest byte sequence hashed step by step (SpecHash).
MaxHashLen == 7
\* Number of operations in a run that also calls hash(object) (SpecFrame).
MaxFrameOps == 2

\* ------------------------------------------------------- program constants
\* The Arduboy has 1 KiB of EEPROM: addresses 0 to 1023 inclusive.
EEPROM_SIZE == 1024
\* sizeof(Arduboy2EEPROM::hash_type), hash_type = uint32_t.
HashTypeSize == 4

\* uintptr_t and size_t are 16 bits wide on the AVR.
PtrMod == 65536
Limb == 65536

\* --------------------------------------------------------- bit arithmetic
RECURSIVE BitXor(_, _)
\* a ^ b on non-negative integers.
BitXor(a, b) ==
  IF a = 0 THEN b
  ELSE IF b = 0 THEN a
  ELSE (((a % 2) + (b % 2)) % 2) + 2 * BitXor(a \div 2, b \div 2)

\* x ^ y on uint32_t values.
Xor32(x, y) == <<BitXor(x[1], y[1]), BitXor(x[2], y[2])>>

\* (value << 5) on a uint32_t: the bits shifted past bit 31 are lost.
Shl5(v) == <<(v[1] * 32) % Limb, ((v[2] * 32) % Limb) + (v[1] \div 2048)>>

\* (value >> 27) on a uint32_t.
Shr27(v) == <<v[2] \div 2048, 0>>

\* A size_t or an unsigned char converted to uint32_t.
ToU32(n) == <<n % Limb, 0>>

\* ------------------------------------------------ object representations
RECURSIVE LimbsToBytes(_, _)
\* reinterpret_cast<const unsigned char *>(&value) for an unsigned integer of
\* width w bytes: little-endian, two bytes per limb (one when w is odd).
LimbsToBytes(limbs, w) ==
  IF w = 0 THEN <<>>
  ELSE IF w = 1 THEN <<limbs[1] % 256>>
  ELSE <<limbs[1] % 256, limbs[1] \div 256>> \o LimbsToBytes(Tail(limbs), w - 2)

RECURSIVE BytesToLimbs(_)
\* The unsigned integer whose object representation is the given bytes.
BytesToLimbs(bytes) ==
  IF bytes = <<>> THEN <<>>
  ELSE IF Len(bytes) = 1 THEN <<bytes[1]>>
  ELSE <<bytes[1] + 256 * bytes[2]>> \o BytesToLimbs(Tail(Tail(bytes)))

\* ------------------------------------------------------------------- hash
\* hashStep with the bits shifted past bit 31 dropped: (value << 5) ^ byte.
hashStep_noWrap(value, byte) == Xor32(Shl5(value), ToU32(byte))

\* One iteration of the loop of hash().
hashStep(value, byte) == Xor32(Xor32(Shl5(value), Shr27(value)), ToU32(byte))

RECURSIVE hashLoop_short(_, _, _)
\* hashLoop ending one byte early: index < size - 1.
hashLoop_short(value, data, index) ==
  IF index + 1 < Len(data)
    THEN hashLoop_short(hashStep(value, data[index + 1]), data, index + 1)
    ELSE value

RECURSIVE hashLoop(_, _, _)
hashLoop(value, data, index) ==
  IF index < Len(data)
    THEN hashLoop(hashStep(value, data[index + 1]), data, index + 1)
    ELSE value

\* hash(data, size) with size = Len(data); hash(object) is hash of the
\* object representation and sizeof(object).
hash(data) == hashLoop(ToU32(Len(data)), data, 0)


\* ------------------------------------------------- caller-supplied hashes
\* The hash providers the custom-hash overloads are called with: a provider
\* returning uint8_t (the sum of the bytes) and one returning uint64_t.
HashProviders == {"sum8", "tag64"}

RECURSIVE SumBytes(_)
SumBytes(data) == IF data = <<>> THEN 0 ELSE data[1] + SumBytes(Tail(data))

\* sizeof(decltype(hash(object))) for a provider; "hash" is the built-in one.
HashWidth(h) == IF h = "sum8" THEN 1 ELSE IF h = "tag64" THEN 8 ELSE HashTypeSize

\* hash(object) for a provider.
HashOf(h, data) ==
  IF h = "sum8" THEN <<SumBytes(data) % 256>>
  ELSE IF h = "tag64"
    THEN <<SumBytes(data) % Limb, Len(data), (Limb - 1) - (SumBytes(data) % Limb), 43981>>
  ELSE hash(data)

\* ------------------------------------------------------------- the device
\* What an access beyond address 1023 (undefined behaviour) does: the address
\* wraps into the 1 KiB array, or the access hits nothing ("void": a store is
\* lost, a load yields 0xFF).
UBOutcomes == {"wrap", "void"}

\* The cell an address selects, -1 when it selects none.
CellOf(address, ub) ==
  IF address < EEPROM_SIZE THEN address
  ELSE IF ub = "wrap" THEN address % EEPROM_SIZE ELSE -1

\* A machine m is [mem, log]: the EEPROM cells and the accesses made so far by
\* the running operation.  eeprom_update_byte writes the cell only when the
\* new value differs from the stored one.
eeprom_update_byte(m, address, byte, ub) ==
  LET cell == CellOf(address, ub)
      old  == IF cell = -1 THEN byte ELSE m.mem[cell]
  IN  [mem |-> IF cell = -1 \/ old = byte THEN m.mem ELSE [m.mem EXCEPT ![cell] = byte],
       log |-> Append(m.log, [kind |-> "w", addr |-> address, cell |-> cell,
                              old |-> old, new |-> byte, phys |-> (old # byte)])]

\* eeprom_write_byte: the unconditional store (not used by the class).
eeprom_write_byte(m, address, byte, ub) ==
  LET cell == CellOf(address, ub)
      old  == IF cell = -1 THEN byte ELSE m.mem[cell]
  IN  [mem |-> IF cell = -1 THEN m.mem ELSE [m.mem EXCEPT ![cell] = byte],
       log |-> Append(m.log, [kind |-> "w", addr |-> address, cell |-> cell,
                              old |-> old, new |-> byte, phys |-> (cell # -1)])]

\* eeprom_read_byte: the value and the machine with the access logged.
eeprom_read_byte(m, address, ub) ==
  LET cell == CellOf(address, ub)
      val  == IF cell = -1 THEN 255 ELSE m.mem[cell]
  IN  [m |-> [mem |-> m.mem,
              log |-> Append(m.log, [kind |-> "r", addr |-> address, cell |-> cell,
                                     old |-> val, new |-> val, phys |-> FALSE])],
       byte |-> val]

\* ------------------------------------------------------------ byte access
writeByte_unconditional(m, address, byte, ub) == eeprom_write_byte(m, address, byte, ub)

writeByte(m, address, byte, ub) == eeprom_update_byte(m, address, byte, ub)

readByte(m, address, ub) == eeprom_read_byte(m, address, ub)

\* --------------------------------------------------- object serialisation
RECURSIVE writeLoop(_, _, _, _, _)
\* for(index = 0; index < sizeof(object); ++index) writeByte(address + index, pointer[index]);
writeLoop(m, address, pointer, index, ub) ==
  IF index < Len(pointer)
    THEN writeLoop(writeByte(m, (address + index) % PtrMod, pointer[index + 1], ub),
                   address, pointer, index + 1, ub)
    ELSE m

\* write leaving out the last byte of the object.
write_skipLast(m, address, object, ub) ==
  writeLoop(m, address, SubSeq(object, 1, Len(object) - 1), 0, ub)

RECURSIVE writeLoopDown(_, _, _, _, _)
\* The loop of write run from the last byte down to the first.
writeLoopDown(m, address, pointer, index, ub) ==
  IF index > 0
    THEN writeLoopDown(writeByte(m, (address + index - 1) % PtrMod, pointer[index], ub),
                       address, pointer, index - 1, ub)
    ELSE m

\* write storing its bytes in descending address order.
write_descending(m, address, object, ub) ==
  writeLoopDown(m, address, object, Len(object), ub)

\* write with the loop bound index <= sizeof(object): one more store, of the
\* byte found past the object (taken as 0).
write_oneMore(m, address, object, ub) == writeLoop(m, address, Append(object, 0), 0, ub)

write(m, address, object, ub) == writeLoop(m, address, object, 0, ub)

RECURSIVE readLoop(_, _, _, _, _)
\* for(index = 0; index < sizeof(object); ++index) pointer[index] = readByte(address + index);
\* The result is [m, object]: object starts as the caller's value.
readLoop(m, address, pointer, index, ub) ==
  IF index < Len(pointer)
    THEN LET r == readByte(m, (address + index) % PtrMod, ub)
         IN  readLoop(r.m, address, [pointer EXCEPT ![index + 1] = r.byte], index + 1, ub)
    ELSE [m |-> m, object |-> pointer]

\* read with its loop started at index 1.
read_fromOne(m, address, object, ub) == readLoop(m, address, object, 1, ub)

read(m, address, object, ub) == readLoop(m, address, object, 0, ub)

\* ------------------------------------------------ hash-prefixed records
\* writeWithHash placing the record one byte early, over the hash field.
writeWithHash_overlap(m, address, object, ub) ==
  LET m1 == write(m, address, LimbsToBytes(hash(object), HashTypeSize), ub)
  IN  write(m1, (address + HashTypeSize - 1) % PtrMod, object, ub)

writeWithHash(m, address, object, ub) ==
  LET m1 == write(m, address, LimbsToBytes(hash(object), HashTypeSize), ub)
  IN  write(m1, (address + HashTypeSize) % PtrMod, object, ub)

\* readWithHash reading the record from address, without the hash offset.
readWithHash_noOffset(m, address, object, ub) ==
  LET r1 == read(m, address, [i \in 1..HashTypeSize |-> 0], ub)
      storedHash == BytesToLimbs(r1.object)
      r2 == read(r1.m, address, object, ub)
  IN  [m |-> r2.m, object |-> r2.object, ret |-> (storedHash = hash(r2.object))]

\* readWithHash giving the caller's object back when the hashes differ.
readWithHash_restoreOnMismatch(m, address, object, ub) ==
  LET r1 == read(m, address, [i \in 1..HashTypeSize |-> 0], ub)
      storedHash == BytesToLimbs(r1.object)
      r2 == read(r1.m, (address + HashTypeSize) % PtrMod, object, ub)
      ok == (storedHash = hash(r2.object))
  IN  [m |-> r2.m, object |-> IF ok THEN r2.object ELSE object, ret |-> ok]

\* The result is [m, object, ret].
readWithHash(m, address, object, ub) ==
  LET r1 == read(m, address, [i \in 1..HashTypeSize |-> 0], ub)
      storedHash == BytesToLimbs(r1.object)
      r2 == read(r1.m, (address + HashTypeSize) % PtrMod, object, ub)
  IN  [m |-> r2.m, object |-> r2.object, ret |-> (storedHash = hash(r2.object))]

\* The custom-hash write placing the record at address + sizeof(uint32_t).
writeWithHashCustom_fixedOffset(m, address, object, h, ub) ==
  LET hashValue == HashOf(h, object)
      m1 == write(m, address, LimbsToBytes(hashValue, HashWidth(h)), ub)
  IN  write(m1, (address + HashTypeSize) % PtrMod, object, ub)

\* The overloads taking a hash provider: hash_type is the provider's result type.
writeWithHashCustom(m, address, object, h, ub) ==
  LET hashValue == HashOf(h, object)
      m1 == write(m, address, LimbsToBytes(hashValue, HashWidth(h)), ub)
  IN  write(m1, (address + HashWidth(h)) % PtrMod, object, ub)

readWithHashCustom(m, address, object, h, ub) ==
  LET r1 == read(m, address, [i \in 1..HashWidth(h) |-> 0], ub)
      storedHash == BytesToLimbs(r1.object)
      r2 == read(r1.m, (address + HashWidth(h)) % PtrMod, object, ub)
      hashValue == HashOf(h, r2.object)
  IN  [m |-> r2.m, object |-> r2.object, ret |-> (storedHash = hashValue)]

\* ------------------------------------------------------------------ state
VARIABLES
  eeprom,   \* the EEPROM: cell -> byte
  log,      \* the EEPROM accesses made by the last operation, in order
  op,       \* the last operation and its arguments
  prevOp,   \* the operation before it
  out,      \* the bytes the last operation delivered to its caller
  ret,      \* the bool returned by the last readWithHash
  slots,    \* the records stored by writeWithHash and not written over since
  steps,    \* operations performed so far
  hpc,      \* position inside hash(data, size)
  hdata,    \* its argument
  hindex,   \* its loop index
  hvalue    \* its accumulator

vars == <<eeprom, log, op, prevOp, out, ret, slots, steps, hpc, hdata, hindex, hvalue>>

hashVars == <<hpc, hdata, hindex, hvalue>>

ioVars == <<eeprom, log, op, prevOp, out, ret, slots, steps>>

\* ----------------------------------------------------------------- inputs
ByteVals == {0, 255}

\* Values stored by direct writeByte calls.
PokeVals == {0, 1, 255}

SeqsOf(S, n) == [1..n -> S]

\* Objects passed to the write operations.
Objects == UNION {SeqsOf(ByteVals, n) : n \in 1..MaxLen}

\* Contents of the destination object before a read operation.
PriorObjects == {[i \in 1..n |-> b] : n \in 1..MaxLen, b \in ByteVals}

\* Addresses an operation with the given footprint is called at: the bottom
\* of the EEPROM and the highest address its precondition allows.
AddrsFor(footprint) == {0, EEPROM_SIZE - footprint}

\* Addresses of the single-byte operations: the record bytes of a slot at
\* address 0 and the last cell.
ByteAddrs == (HashTypeSize .. (HashTypeSize + MaxLen - 1)) \cup {EEPROM_SIZE - 1}

\* Outcomes to consider for an operation that touches [address, address + footprint).
Outcomes(address, footprint) ==
  IF address + footprint > EEPROM_SIZE THEN UBOutcomes ELSE {"wrap"}

\* Byte sequences hashed step by step.
HashBytes == {0, 1, 255}

HashInputs == UNION {SeqsOf(HashBytes, n) : n \in 0..MaxHashLen}

\* ------------------------------------------------------------ bookkeeping
NoOp == [name |-> "none", address |-> 0, arg |-> <<>>, hash |-> "none"]

Call(name, address, arg, h) == [name |-> name, address |-> address, arg |-> arg, hash |-> h]

\* The cells a log stored to.
StoreCells(l) == {l[i].cell : i \in {j \in 1..Len(l) : l[j].kind = "w" /\ l[j].cell # -1}}

SlotRange(s) == s.addr .. (s.addr + HashTypeSize + Len(s.obj) - 1)

RecordRegion(s) == (s.addr + HashTypeSize) .. (s.addr + HashTypeSize + Len(s.obj) - 1)

\* The slots after an operation that made the accesses l: a slot stays while no
\* store is issued inside it; a slot whose record region gets exactly one byte
\* changed by a direct writeByte is kept, marked dirty; a default-hash
\* writeWithHash adds its slot.
NextSlots(o, l) ==
  LET kept  == {s \in slots : StoreCells(l) \cap SlotRange(s) = {}}
      hit   == {s \in slots : /\ o.name = "writeByte"
                              /\ ~s.dirty
                              /\ l[1].cell \in RecordRegion(s)
                              /\ l[1].old # l[1].new}
      dirty == {[s EXCEPT !.dirty = TRUE] : s \in hit}
      new   == IF o.name = "writeWithHash" /\ o.hash = "hash"
                 THEN {[addr |-> o.address, obj |-> o.arg, dirty |-> FALSE]}
                 ELSE {}
  IN  kept \cup dirty \cup new

M0 == [mem |-> eeprom, log |-> <<>>]

\* The state after an operation: the machine it leaves, what it delivered.
Finish(o, m, delivered, result) ==
  /\ eeprom' = m.mem
  /\ log' = m.log
  /\ op' = o
  /\ prevOp' = op
  /\ out' = delivered
  /\ ret' = result
  /\ slots' = NextSlots(o, m.log)
  /\ steps' = steps + 1
  /\ UNCHANGED hashVars

\* ------------------------------------------------------------------- Init
InitIO ==
  /\ eeprom \in {[c \in 0..(EEPROM_SIZE - 1) |-> 255], [c \in 0..(EEPROM_SIZE - 1) |-> 0]}
  /\ log = <<>>
  /\ op = NoOp
  /\ prevOp = NoOp
  /\ out = <<>>
  /\ ret = FALSE
  /\ slots = {}
  /\ steps = 0

Init ==
  /\ InitIO
  /\ hpc = "idle"
  /\ hdata = <<>>
  /\ hindex = 0
  /\ hvalue = <<0, 0>>

\* ---------------------------------------------------------------- actions
Begin ==
  /\ steps < MaxOps
  /\ Finish(Call("begin", 0, <<>>, "none"), M0, <<>>, FALSE)

Commit ==
  /\ steps < MaxOps
  /\ Finish(Call("commit", 0, <<>>, "none"), M0, <<>>, FALSE)

WriteByte ==
  /\ steps < MaxOps
  /\ \E address \in ByteAddrs, byte \in PokeVals :
       Finish(Call("writeByte", address, <<byte>>, "none"),
              writeByte(M0, address, byte, "wrap"), <<>>, FALSE)

ReadByte ==
  /\ steps < MaxOps
  /\ \E address \in ByteAddrs :
       LET r == readByte(M0, address, "wrap")
       IN  Finish(Call("readByte", address, <<>>, "none"), r.m, <<r.byte>>, FALSE)

Write ==
  /\ steps < MaxOps
  /\ \E object \in Objects :
       \E address \in AddrsFor(Len(object)) :
         /\ address + Len(object) <= EEPROM_SIZE
         /\ Finish(Call("write", address, object, "none"),
                   write(M0, address, object, "wrap"), <<>>, FALSE)

Read ==
  /\ steps < MaxOps
  /\ \E object \in PriorObjects :
       \E address \in AddrsFor(Len(object)) :
         /\ address + Len(object) <= EEPROM_SIZE
         /\ LET r == read(M0, address, object, "wrap")
            IN  Finish(Call("read", address, object, "none"), r.m, r.object, FALSE)

WriteWithHash ==
  /\ steps < MaxOps
  /\ \E object \in Objects :
       \E address \in AddrsFor(HashTypeSize + Len(object)) :
         /\ address + HashTypeSize + Len(object) <= EEPROM_SIZE
         /\ Finish(Call("writeWithHash", address, object, "hash"),
                   writeWithHash(M0, address, object, "wrap"), <<>>, FALSE)

ReadWithHash ==
  /\ steps < MaxOps
  /\ \E object \in PriorObjects :
       \E address \in AddrsFor(HashTypeSize + Len(object)) :
         /\ address + HashTypeSize + Len(object) <= EEPROM_SIZE
         /\ LET r == readWithHash(M0, address, object, "wrap")
            IN  Finish(Call("readWithHash", address, object, "hash"), r.m, r.object, r.ret)

Next ==
  \/ Begin
  \/ Commit
  \/ WriteByte
  \/ ReadByte
  \/ Write
  \/ Read
  \/ WriteWithHash
  \/ ReadWithHash

Spec == Init /\ [][Next]_vars

\* ------------------------------------- operations with a hash provider
\* Addresses the custom-hash overloads are called at: the bottom, the highest
\* address the documented precondition allows, and the highest address at
\* which hash field and record both fit.
CustomAddrs(h, object) ==
  {0, EEPROM_SIZE - HashTypeSize - Len(object), EEPROM_SIZE - HashWidth(h) - Len(object)}

WriteWithHashCustom ==
  /\ steps < MaxCustomOps
  /\ \E h \in HashProviders, object \in Objects :
       \E address \in CustomAddrs(h, object) :
         \* @pre (address + sizeof(hash_type) + sizeof(object)) <= 1024
         /\ address + HashTypeSize + Len(object) <= EEPROM_SIZE
         /\ \E ub \in Outcomes(address, HashWidth(h) + Len(object)) :
              Finish(Call("writeWithHash", address, object, h),
                     writeWithHashCustom(M0, address, object, h, ub), <<>>, FALSE)

ReadWithHashCustom ==
  /\ steps < MaxCustomOps
  /\ \E h \in HashProviders, object \in PriorObjects :
       \E address \in CustomAddrs(h, object) :
         /\ address + HashTypeSize + Len(object) <= EEPROM_SIZE
         /\ \E ub \in Outcomes(address, HashWidth(h) + Len(object)) :
              LET r == readWithHashCustom(M0, address, object, h, ub)
              IN  Finish(Call("readWithHash", address, object, h), r.m, r.object, r.ret)

WriteWithHashDefault == steps < MaxCustomOps /\ WriteWithHash

ReadWithHashDefault == steps < MaxCustomOps /\ ReadWithHash

NextCustom ==
  \/ WriteWithHashCustom
  \/ ReadWithHashCustom
  \/ WriteWithHashDefault
  \/ ReadWithHashDefault

SpecCustom == Init /\ [][NextCustom]_vars

\* ------------------------------------------------ hash(), step by step
InitHash ==
  /\ InitIO
  /\ eeprom = [c \in 0..(EEPROM_SIZE - 1) |-> 255]
  /\ hpc = "entry"
  /\ hdata \in HashInputs
  /\ hindex = 0
  /\ hvalue = <<0, 0>>

\* hash_type value = size;
HashEntry ==
  /\ hpc = "entry"
  /\ hvalue' = ToU32(Len(hdata))
  /\ hindex' = 0
  /\ hpc' = "loop"
  /\ UNCHANGED <<hdata, ioVars>>

\* value = (((value << 5) ^ (value >> 27)) ^ data[index]);
HashIter ==
  /\ hpc = "loop"
  /\ hindex < Len(hdata)
  /\ hvalue' = hashStep(hvalue, hdata[hindex + 1])
  /\ hindex' = hindex + 1
  /\ UNCHANGED <<hpc, hdata, ioVars>>

\* return value;
HashReturn ==
  /\ hpc = "loop"
  /\ ~(hindex < Len(hdata))
  /\ hpc' = "done"
  /\ UNCHANGED <<hvalue, hindex, hdata, ioVars>>

NextHash ==
  \/ HashEntry
  \/ HashIter
  \/ HashReturn

SpecHash == InitHash /\ [][NextHash]_vars

\* ================================================================ claims
\* The bytes stored at [address, address + n).
StoredBytes(address, n) == [i \in 1..n |-> eeprom[address + i - 1]]

\* The last two operations are a default-hash writeWithHash and a
\* readWithHash of a record of the same size at the same address.
WriteThenReadWithHash ==
  /\ op.name = "readWithHash" /\ op.hash = "hash"
  /\ prevOp.name = "writeWithHash" /\ prevOp.hash = "hash"
  /\ prevOp.address = op.address
  /\ Len(prevOp.arg) = Len(op.arg)

\* C1 -- integrity round trip: writeWithHash(a, v) followed immediately by
\* readWithHash(a, v2) returns true and leaves v2 identical to v.
C1_IntegrityRoundTrip == WriteThenReadWithHash => (ret = TRUE /\ out = prevOp.arg)

\* C1 happens: a round trip at the highest allowed address, after an earlier
\* operation, into a destination that held something else.
C1_Witness ==
  /\ WriteThenReadWithHash
  /\ steps = 3
  /\ op.address = EEPROM_SIZE - HashTypeSize - Len(op.arg)
  /\ op.arg # prevOp.arg
  /\ ret = TRUE
  /\ out = prevOp.arg

\* A slot written at the address of the last readWithHash, for a record of
\* the size read.
SlotsRead(dirty) ==
  {s \in slots : /\ op.name = "readWithHash" /\ op.hash = "hash"
                 /\ s.addr = op.address
                 /\ Len(s.obj) = Len(op.arg)
                 /\ s.dirty = dirty}

\* C2 -- integrity mismatch detection: after writeWithHash(a, v), one byte of
\* the record region overwritten by writeByte with a different value, and no
\* other store into the slot, readWithHash(a, v2) returns false.
C2_MismatchDetected == (SlotsRead(TRUE) # {}) => (ret = FALSE)

\* C2 happens: the corrupted slot is read right after the writeByte.
C2_Witness ==
  /\ SlotsRead(TRUE) # {}
  /\ prevOp.name = "writeByte"
  /\ ret = FALSE
  /\ \E s \in SlotsRead(TRUE) : out # s.obj /\ Len(s.obj) = 2

\* The hash separates byte sequences that differ in exactly one byte (what the
\* mismatch detection of C2 rests on), for sequences of up to MaxHashLen bytes.
HashSingleByteSensitive ==
  (hpc = "done") =>
    \A i \in 1..Len(hdata) : \A b \in HashBytes \ {hdata[i]} :
      hash([hdata EXCEPT ![i] = b]) # hvalue

\* ------------------------------ the hash formula, computed on bit vectors
\* Bit i (0 = least significant) of a uint32_t.
BitOf(v, i) == (v[1 + (i \div 16)] \div (2 ^ (i % 16))) % 2

Bits32(v) == [i \in 0..31 |-> BitOf(v, i)]

ByteBits(byte) == [i \in 0..31 |-> IF i < 8 THEN (byte \div (2 ^ i)) % 2 ELSE 0]

RotLeft(b, n) == [i \in 0..31 |-> b[(i + 32 - n) % 32]]

RotRight(b, n) == [i \in 0..31 |-> b[(i + n) % 32]]

XorBits(a, b) == [i \in 0..31 |-> (a[i] + b[i]) % 2]

RECURSIVE RefRotate(_, _)
\* accumulator := rotl(accumulator, 5) XOR byte, over the bytes in order.
RefRotate(acc, data) ==
  IF data = <<>> THEN acc
  ELSE RefRotate(XorBits(RotLeft(acc, 5), ByteBits(data[1])), Tail(data))

RECURSIVE RefTwoRotations(_, _)
\* accumulator := rotl(accumulator, 5) XOR rotr(accumulator, 5) XOR byte.
RefTwoRotations(acc, data) ==
  IF data = <<>> THEN acc
  ELSE RefTwoRotations(
         XorBits(XorBits(RotLeft(acc, 5), RotRight(acc, 5)), ByteBits(data[1])),
         Tail(data))

\* The bits of size (a 16-bit size_t) converted to 32 bits.
SizeBits(data) == [i \in 0..31 |-> IF i < 16 THEN (Len(data) \div (2 ^ i)) % 2 ELSE 0]

\* C3 as stated -- hash(bytes, size) is the accumulator started at size and
\* updated by rotl 5 XOR rotr 5 XOR byte.
C3_HashTwoRotations ==
  (hpc = "done") => (Bits32(hvalue) = RefTwoRotations(SizeBits(hdata), hdata))

\* C3 amended -- hash(bytes, size) is the accumulator started at size and
\* updated, for each byte in ascending order, by (accumulator rotated left by
\* 5 bits, 32 bits wide) XOR byte.
C3_HashRotateLeft ==
  (hpc = "done") => (Bits32(hvalue) = RefRotate(SizeBits(hdata), hdata))

\* C3 happens: a sequence long enough for bits to leave bit 31 and re-enter.
C3_Witness ==
  /\ hpc = "done"
  /\ Len(hdata) >= 7
  /\ hdata[1] = 255
  /\ hvalue = hash(hdata)

\* The last two operations are a write and a read of an object of the same
\* size at the same address.
WriteThenRead ==
  /\ op.name = "read"
  /\ prevOp.name = "write"
  /\ prevOp.address = op.address
  /\ Len(prevOp.arg) = Len(op.arg)

\* C4 -- round trip of the object layer: write(a, v) followed by read(a, v2)
\* leaves v2 identical to v.
C4_ObjectRoundTrip == WriteThenRead => (out = prevOp.arg)

\* C4 happens: a two-byte object at the top of the EEPROM, read into a
\* destination that held something else.
C4_Witness ==
  /\ WriteThenRead
  /\ Len(op.arg) = 2
  /\ op.address = EEPROM_SIZE - 2
  /\ op.arg # prevOp.arg
  /\ out = prevOp.arg

\* C5 -- slot invariant: once writeWithHash(a, v) has completed, after any
\* operations that store nothing inside [a, a + 4 + sizeof(v)), readWithHash(a, v2)
\* returns true and yields v.
C5_SlotInvariant ==
  \A s \in SlotsRead(FALSE) : ret = TRUE /\ out = s.obj

\* C5 happens: the slot is read after an intervening store elsewhere.
C5_Witness ==
  /\ SlotsRead(FALSE) # {}
  /\ steps = 3
  /\ prevOp.name \in {"writeByte", "write", "writeWithHash"}
  /\ \A s \in SlotsRead(FALSE) : ret = TRUE /\ out = s.obj /\ op.arg # s.obj

\* The last operation is one of the storing operations of the default layers.
Storing(o) == o.name \in {"writeByte", "write", "writeWithHash"}

\* The number of bytes operation o stores.
StoreCount(o) ==
  IF o.name = "writeWithHash" THEN HashTypeSize + Len(o.arg) ELSE Len(o.arg)

\* C6 -- write-skip on equality: each byte stored by writeByte, write and
\* writeWithHash is one store, to its own cell, that writes the cell
\* physically exactly when the cell held a different value before the call.
C6_WriteSkip ==
  [][(steps' = steps + 1 /\ Storing(op')) =>
       /\ Len(log') = StoreCount(op')
       /\ \A i \in 1..Len(log') :
            /\ log'[i].kind = "w"
            /\ log'[i].addr = op'.address + i - 1
            /\ log'[i].phys = (eeprom[log'[i].addr] # log'[i].new)
            /\ eeprom'[log'[i].addr] = log'[i].new]_vars

\* C6 happens: one write call with a byte skipped and a byte written.
C6_Witness ==
  /\ op.name = "write"
  /\ Len(log) = 2
  /\ log[1].phys # log[2].phys
  /\ \E i \in 1..2 : log[i].old = log[i].new /\ ~log[i].phys

\* C7 -- idempotent write: a write or writeWithHash repeated with the same
\* arguments leaves the storage as it was and writes no cell physically.
C7_IdempotentWrite ==
  [][(steps' = steps + 1 /\ op' = op /\ op'.name \in {"write", "writeWithHash"}) =>
       /\ eeprom' = eeprom
       /\ \A i \in 1..Len(log') : ~log'[i].phys]_vars

\* C7 happens: a writeWithHash whose record holds both byte values (so the
\* first call wrote cells) has just been repeated.
C7_Witness ==
  /\ op = prevOp
  /\ op.name = "writeWithHash"
  /\ op.arg = <<0, 255>>
  /\ Len(log) = HashTypeSize + 2
  /\ \A i \in 1..Len(log) : ~log[i].phys

\* The hash field and the record of a custom-hash call fit in the EEPROM.
CustomFits(o) ==
  /\ o.hash \in HashProviders
  /\ o.address + HashWidth(o.hash) + Len(o.arg) <= EEPROM_SIZE

\* C8 -- custom hash substitution: writeWithHash(a, v, f) stores f(v) in the H
\* bytes at a and v in the bytes from a + H, H the width of f's result, and a
\* following readWithHash(a, v2, f) returns true and leaves v2 identical to v.
C8_CustomHash ==
  /\ (op.name = "writeWithHash" /\ CustomFits(op)) =>
       /\ StoredBytes(op.address, HashWidth(op.hash))
            = LimbsToBytes(HashOf(op.hash, op.arg), HashWidth(op.hash))
       /\ StoredBytes(op.address + HashWidth(op.hash), Len(op.arg)) = op.arg
  /\ (/\ op.name = "readWithHash" /\ CustomFits(op)
      /\ prevOp.name = "writeWithHash"
      /\ prevOp.hash = op.hash
      /\ prevOp.address = op.address
      /\ Len(prevOp.arg) = Len(op.arg)) =>
       (ret = TRUE /\ out = prevOp.arg)

\* C8 happens: a round trip with the 8-byte hash at the highest address where
\* everything fits.
C8_Witness ==
  /\ op.name = "readWithHash" /\ op.hash = "tag64"
  /\ prevOp.name = "writeWithHash" /\ prevOp.hash = "tag64"
  /\ prevOp.address = op.address
  /\ op.address = EEPROM_SIZE - 8 - Len(op.arg)
  /\ Len(prevOp.arg) = Len(op.arg)
  /\ op.arg # prevOp.arg
  /\ ret = TRUE
  /\ out = prevOp.arg

\* C9 -- readWithHash(a, record) always leaves in record the bytes stored at
\* [a + 4, a + 4 + sizeof(record)) and returns true exactly when the field
\* stored at [a, a + 4) is the hash of those bytes.
C9_ReadWithHashPopulates ==
  (op.name = "readWithHash" /\ op.hash = "hash") =>
    /\ out = StoredBytes(op.address + HashTypeSize, Len(op.arg))
    /\ ret = (BytesToLimbs(StoredBytes(op.address, HashTypeSize)) = hash(out))

\* C9 happens: a read of never-written storage fails and still replaces the
\* record.
C9_Witness ==
  /\ op.name = "readWithHash" /\ op.hash = "hash"
  /\ steps = 1
  /\ ret = FALSE
  /\ out # op.arg
  /\ out = StoredBytes(op.address + HashTypeSize, Len(op.arg))

\* C10 -- address-range safety: every EEPROM address read or written by
\* writeWithHash and readWithHash, called with
\* address + sizeof(hash_type) + sizeof(object) <= 1024 (hash_type the 32-bit
\* type of the class), lies in 0..1023.
C10_AddressRangeSafety ==
  \A i \in 1..Len(log) : log[i].addr \in 0..(EEPROM_SIZE - 1)

\* The bytes an operation stores, in the order of the final layout: the
\* object for write, the hash field then the record for writeWithHash.
StoreLayout(o) ==
  IF o.name = "writeWithHash"
    THEN LimbsToBytes(hash(o.arg), HashTypeSize) \o o.arg
    ELSE o.arg

\* The values of the first k stores of the last operation, in order.
StoredSoFar(k) == [i \in 1..k |-> log[i].new]

\* C11 -- ordering of byte stores: write(a, v) and writeWithHash(a, v) make
\* nothing but stores, one per byte, the i-th store going to address a + i and
\* carrying byte i of the layout (the object; the hash field followed by the
\* record), so after every number k of stores the bytes stored are the first
\* k bytes of the layout, at a .. a + k - 1, hash field before record.
C11_StoreOrder ==
  (op.name \in {"write", "writeWithHash"} /\ op.hash \in {"none", "hash"}) =>
    /\ Len(log) = Len(StoreLayout(op))
    /\ \A k \in 0..Len(log) :
         /\ StoredSoFar(k) = SubSeq(StoreLayout(op), 1, k)
         /\ \A i \in 1..k : log[i].kind = "w" /\ log[i].addr = op.address + i - 1

\* C11 happens: a writeWithHash of a two-byte record with distinct bytes made
\* its six stores, the four of the hash field first.
C11_Witness ==
  /\ op.name = "writeWithHash" /\ op.hash = "hash"
  /\ op.arg = <<255, 0>>
  /\ Len(log) = HashTypeSize + 2
  /\ StoredSoFar(HashTypeSize) = LimbsToBytes(hash(op.arg), HashTypeSize)
  /\ log[1].new # log[2].new
  /\ log[HashTypeSize + 1].new = 255 /\ log[HashTypeSize + 1].addr = op.address + HashTypeSize
  /\ log[HashTypeSize + 2].new = 0

\* ------------------------------------------- runs that also call hash()
\* hash(object) called by the program: it touches no EEPROM cell and delivers
\* the hash code.
HashCall ==
  /\ steps < MaxFrameOps
  /\ \E object \in Objects :
       Finish(Call("hash", 0, object, "hash"), M0,
              LimbsToBytes(hash(object), HashTypeSize), FALSE)

\* One of the operations of Next, within the shorter run.
FrameOp == steps < MaxFrameOps /\ Next

NextFrame ==
  \/ FrameOp
  \/ HashCall

SpecFrame == Init /\ [][NextFrame]_vars

\* The addresses operation o may store to.
Footprint(o) ==
  IF o.name = "write" THEN o.address .. (o.address + Len(o.arg) - 1)
  ELSE IF o.name = "writeWithHash"
    THEN o.address .. (o.address + HashTypeSize + Len(o.arg) - 1)
  ELSE {}

\* C12 -- frame of the operations: write(a, v) changes no byte outside
\* [a, a + sizeof(v)), writeWithHash(a, v) none outside [a, a + 4 + sizeof(v)),
\* and readByte, read, readWithHash, hash, begin and commit change no byte.
C12_Frame ==
  [][(steps' = steps + 1 /\ op'.name # "writeByte") =>
       /\ \A c \in (0..(EEPROM_SIZE - 1)) \ Footprint(op') : eeprom'[c] = eeprom[c]
       /\ (op'.name \in {"readByte", "read", "readWithHash", "hash", "begin", "commit"}) =>
            (eeprom' = eeprom /\ \A i \in 1..Len(log') : ~log'[i].phys)]_vars

\* C12 happens: a writeWithHash at address 0 changed cells of its slot while
\* the object written before at the top of the EEPROM is still there.
C12_Witness ==
  /\ op.name = "writeWithHash" /\ op.address = 0
  /\ prevOp.name = "write" /\ prevOp.address = EEPROM_SIZE - 2
  /\ prevOp.arg = <<0, 255>>
  /\ StoredBytes(EEPROM_SIZE - 2, 2) = <<0, 255>>
  /\ \E i \in 1..Len(log) : log[i].phys
  /\ StoredBytes(HashTypeSize, Len(op.arg)) = op.arg

=============================================================================
